---- MODULE Spec2Model ----
(***************************************************************************)
(* Model of FlightVideoSynchronizer                                        *)
(* (Flight_Viewer/CSV_to_Graph/flight_video_synchronizer.py).              *)
(*                                                                         *)
(* One run of generate_video(): load_data, interpolate_csv_to_video_fps,   *)
(* the frame pre-read loop, the writer set-up and the animate/grab_frame   *)
(* loop.                                                                   *)
(*                                                                         *)
(* Numbers.  elapsed_time values of the log are whole multiples of         *)
(* 1/TicksPerSecond second and are held as tick counts.  A video time      *)
(* i / video_fps and every interpolated value is an exact rational, held   *)
(* as a record [num, den] with den > 0.  Two times are compared after      *)
(* scaling both by video_fps * TicksPerSecond.                             *)
(***************************************************************************)
EXTENDS Integers, Sequences, FiniteSets

\* ------------------------------------------------------------------ bounds
TicksPerSecond == 2
MaxTick == 8
MaxRows == 3
MaxVal == 1

\* ------------------------------------------------------- program constants
output_fps == 30
trail_length == 100

\* --------------------------------------------------------------- helpers
Min(a, b) == IF a <= b THEN a ELSE b
Max(a, b) == IF a >= b THEN a ELSE b
Abs(a) == IF a < 0 THEN -a ELSE a
None == "None"

\* Integer part of num / den as Python's int() takes it: toward zero.
IntTrunc(num, den) == IF num >= 0 THEN num \div den ELSE -((-num) \div den)

\* numpy's round() of the rational num / den (den > 0): to the nearest
\* integer, a tie going to the even neighbour.
RoundTruncMutant(num, den) == IntTrunc(num, den)
RoundHalfEven(num, den) ==
    LET q == num \div den
        r == num % den
    IN  IF 2 * r < den THEN q
        ELSE IF 2 * r > den THEN q + 1
        ELSE IF q % 2 = 0 THEN q ELSE q + 1

\* ------------------------------------------------------ the telemetry log
\* Columns of the CSV, in file order.
AllColumns ==
    << "timestamp", "elapsed_time", "frame_number", "marker_count",
       "pos_x", "pos_y", "pos_z", "roll_ref_deg", "pitch_ref_deg",
       "pid_x_p", "pid_x_i", "pid_x_d", "pid_y_p", "pid_y_i", "pid_y_d",
       "send_success", "control_active" >>

\* The columns interpolate_csv_to_video_fps rounds to integers.
IntegerColumns == {"frame_number", "marker_count", "send_success", "control_active"}

\* The columns each panel of animate reads, in the order animate draws.
PanelOrder == << "2d", "angle", "pid_x", "pid_y", "markers" >>
PanelColumns ==
    [p \in {"2d", "angle", "pid_x", "pid_y", "markers"} |->
        CASE p = "2d" -> {"pos_x", "pos_y"}
          [] p = "angle" -> {"roll_ref_deg", "pitch_ref_deg"}
          [] p = "pid_x" -> {"pid_x_p", "pid_x_i", "pid_x_d"}
          [] p = "pid_y" -> {"pid_y_p", "pid_y_i", "pid_y_d"}
          [] p = "markers" -> {"marker_count"}]

SeqToSet(s) == {s[k] : k \in 1..Len(s)}

RECURSIVE SeqWithout(_, _)
SeqWithout(s, x) ==
    IF s = << >> THEN << >>
    ELSE IF Head(s) = x THEN SeqWithout(Tail(s), x)
    ELSE << Head(s) >> \o SeqWithout(Tail(s), x)

\* Inputs enumerated: the instants a log row may carry, the value sets, and
\* the one defect a log may have (a column of non-numeric strings, or a
\* column that is not in the file).
TimePoints == {0, 1, MaxTick}
Vals == 0..MaxVal
BadCandidates == {"marker_count", "pos_x", "pos_z"}
MissingCandidates ==
    {"marker_count", "pos_x", "pid_x_i"}

StrictlyIncreasing(s) == \A k \in 1..(Len(s) - 1) : s[k] < s[k + 1]
CsvTimeSeqs ==
    UNION {{s \in [1..n -> TimePoints] : StrictlyIncreasing(s)} : n \in 1..MaxRows}

\* The DataFrame pd.read_csv returns: the column order, and per column
\* whether its values are numbers and the values themselves.  The timestamp
\* label of row r is r; a non-numeric cell holds the string "abc".
MakeDf(times, vals, badCol, missingCol) ==
    LET n == Len(times)
        cols == SeqWithout(AllColumns, missingCol)
    IN  [columns |-> cols,
         numeric |-> [c \in SeqToSet(cols) |-> c # "timestamp" /\ c # badCol],
         values  |-> [c \in SeqToSet(cols) |->
                        IF c = "elapsed_time" THEN times
                        ELSE IF c = "timestamp" THEN [r \in 1..n |-> r]
                        ELSE IF c = badCol THEN [r \in 1..n |-> "abc"]
                        ELSE vals]]

\* The video file: whether cv2 can open it, the frame rate and frame count
\* its container reports, and how many frames read() really decodes.
VideoFpsValues == {0, 1, 3, output_fps}
VideoFrameCounts == {0, 2, trail_length + 2}
Videos ==
    {[openable |-> FALSE, fps |-> 0, frame_count |-> 0, decodable |-> 0]}
    \cup UNION {{[openable |-> TRUE, fps |-> f, frame_count |-> c, decodable |-> d] :
                    f \in VideoFpsValues, d \in {0, 1, c}} : c \in VideoFrameCounts}

\* ------------------------------------------------------------ resampling
DfLen(idf) == Len(idf["elapsed_time"])

Extend(f, k, v) == [x \in (DOMAIN f) \cup {k} |-> IF x = k THEN v ELSE f[x]]

\* video_times = np.arange(0, sync_frame_count) / video_fps
video_times(count, fps) == [i \in 1..count |-> [num |-> i - 1, den |-> fps]]

\* csv_times[j] < t, for the video time t = [num, den] and csv_times in ticks.
TickBefore(tick, t) == tick * t.den < t.num * TicksPerSecond
TickAtOrBefore(tick, t) == tick * t.den <= t.num * TicksPerSecond

\* np.searchsorted(csv_times, t), side='left': the count of elements < t.
searchsorted(csv_times, t) ==
    Cardinality({j \in 1..Len(csv_times) : TickBefore(csv_times[j], t)})

\* np.clip
clip(x, lo, hi) == IF x < lo THEN lo ELSE IF x > hi THEN hi ELSE x

\* np.interp(t, csv_times, fp): fp[first] left of the range, fp[last] right
\* of it, the straight line between the two bracketing rows inside it.
interp(t, csv_times, fp) ==
    LET m == Len(csv_times)
        X == t.num * TicksPerSecond
        XP(j) == csv_times[j] * t.den
    IN  IF X <= XP(1) THEN [num |-> fp[1], den |-> 1]
        ELSE IF X >= XP(m) THEN [num |-> fp[m], den |-> 1]
        ELSE LET j == CHOOSE k \in 1..(m - 1) : XP(k) <= X /\ X < XP(k + 1)
                 D == XP(j + 1) - XP(j)
             IN  [num |-> fp[j] * D + (fp[j + 1] - fp[j]) * (X - XP(j)), den |-> D]

\* One pass of the column loop of interpolate_csv_to_video_fps.  acc holds
\* the DataFrame built so far, the warnings printed and the exception raised.
RECURSIVE InterpolateColumns(_, _, _, _)
InterpolateColumns(cols, d, vt, acc) ==
    IF cols = << >> THEN acc
    ELSE
      LET col == Head(cols)
          csv_times == d.values["elapsed_time"]
          n == Len(vt)
      IN  IF col = "elapsed_time" THEN InterpolateColumns(Tail(cols), d, vt, acc)
          ELSE IF col = "timestamp" THEN
            LET indices == [i \in 1..n |->
                              clip(searchsorted(csv_times, vt[i]), 0, Len(csv_times) - 1)]
                column == [i \in 1..n |-> d.values[col][indices[i] + 1]]
            IN  InterpolateColumns(Tail(cols), d, vt,
                    [acc EXCEPT !.data = Extend(@, col, column)])
          ELSE IF col \in IntegerColumns THEN
            IF ~d.numeric[col] THEN [acc EXCEPT !.raised = "ValueError"]
            ELSE
              LET column == [i \in 1..n |->
                                LET v == interp(vt[i], csv_times, d.values[col])
                                IN  RoundHalfEven(v.num, v.den)]
              IN  InterpolateColumns(Tail(cols), d, vt,
                      [acc EXCEPT !.data = Extend(@, col, column)])
          ELSE
            IF ~d.numeric[col] THEN
              InterpolateColumns(Tail(cols), d, vt,
                  [acc EXCEPT !.printed = Append(@, col)])
            ELSE
              LET column == [i \in 1..n |-> interp(vt[i], csv_times, d.values[col])]
              IN  InterpolateColumns(Tail(cols), d, vt,
                      [acc EXCEPT !.data = Extend(@, col, column)])

interpolate_csv_to_video_fps(d, count, fps) ==
    LET vt == video_times(count, fps)
    IN  InterpolateColumns(d.columns, d, vt,
            [data |-> [c \in {"elapsed_time"} |-> vt], printed |-> << >>, raised |-> None])

\* ------------------------------------------------------------- compositing
Panels == {"video", "2d", "angle", "pid_x", "pid_y", "markers"}

\* What a panel shows: its content, and the frame index the content was
\* drawn for (-1: none).  create_figure leaves the video panel without an
\* image and the other panels with an empty grid.
create_figure ==
    [p \in Panels |->
        IF p = "video" THEN [content |-> "blank", frame |-> -1]
        ELSE [content |-> "empty", frame |-> -1]]

\* history_start of animate
history_start(idx) == Max(0, idx - trail_length)

\* interpolated_df.iloc[a:b] as the row positions it selects (0-based); a
\* slice end beyond the last row is cut to the length.
IlocSliceMutant(n, a, b) == [k \in 1..Max(0, Min(b - 1, n) - a) |-> a + k - 1]
iloc_slice(n, a, b) == [k \in 1..Max(0, Min(b, n) - a) |-> a + k - 1]

\* The first panel, in drawing order, that reads a column the resampled
\* DataFrame does not have (0: none does).
FirstFailingPanel(idf) ==
    LET failing == {k \in 1..Len(PanelOrder) :
                      ~(PanelColumns[PanelOrder[k]] \subseteq DOMAIN idf)}
    IN  IF failing = {} THEN 0
        ELSE CHOOSE k \in failing : \A o \in failing : k <= o

PanelIndex(p) == CHOOSE k \in 1..Len(PanelOrder) : PanelOrder[k] = p

\* animate(frame_idx, axes, interpolated_df, video_frames): the axes after
\* the call, the history slice it took, and the exception it raised.  A
\* panel is cleared and then drawn; a KeyError leaves the failing panel
\* cleared and the panels after it as they were.
animate(idx, ax, idf, frames) ==
    LET hist == iloc_slice(DfLen(idf), history_start(idx), idx + 1)
        f == FirstFailingPanel(idf)
        drawn == [content |-> "plot", frame |-> idx]
    IN  [history_data |-> hist,
         raised |-> IF f = 0 THEN None ELSE "KeyError",
         axes |->
            [p \in Panels |->
                IF p = "video" THEN
                    IF idx < Len(frames)
                    THEN [content |-> "image", frame |-> frames[idx + 1]]
                    ELSE ax[p]
                ELSE IF f = 0 \/ PanelIndex(p) < f THEN drawn
                ELSE IF PanelIndex(p) = f THEN [content |-> "cleared", frame |-> idx]
                ELSE ax[p]]]

\* The frame index range of the loop that renders and encodes.
RenderCountMutant(idf, frames) == Len(frames)
RenderCount(idf, frames) == DfLen(idf)

\* An exception leaving generate_video: its type and the call that raised it.
Raised(type, where) == [type |-> type, in |-> where]
NoError == Raised(None, None)

\* ----------------------------------------------------------------- state
VARIABLES
    df,                 \* self.df as read_csv will return it (input)
    video,              \* the video file (input)
    pc,                 \* position in generate_video
    error,              \* the exception that left generate_video (NoError: none)
    video_cap,          \* self.video_cap
    video_fps,          \* self.video_fps
    video_frame_count,  \* self.video_frame_count
    sync_frame_count,   \* self.sync_frame_count (None until load_data sets it)
    interpolated_df,    \* the resampled DataFrame (None until computed)
    printed,            \* the columns a skip warning was printed for
    video_frames,       \* the pre-read frames, each the position it was decoded at
    read_i,             \* i of the pre-read loop
    fig,                \* the matplotlib figure
    axes,               \* what each panel of the figure shows
    writer,             \* the FFMpegWriter
    output_file,        \* the output video file
    encoded,            \* the frames grab_frame has handed to the encoder
    frame_idx,          \* frame_idx of the render loop
    history_data        \* history_data of the last animate call

vars ==
    << df, video, pc, error, video_cap, video_fps, video_frame_count,
       sync_frame_count, interpolated_df, printed, video_frames, read_i, fig,
       axes, writer, output_file, encoded, frame_idx, history_data >>

Init ==
    /\ \E t \in CsvTimeSeqs : \E v \in [1..Len(t) -> Vals] :
          \/ df = MakeDf(t, v, None, None)
          \/ \E c \in BadCandidates : df = MakeDf(t, v, c, None)
          \/ \E c \in MissingCandidates : df = MakeDf(t, v, None, c)
    /\ video \in Videos
    /\ pc = "start"
    /\ error = NoError
    /\ video_cap = None
    /\ video_fps = 30
    /\ video_frame_count = 0
    /\ sync_frame_count = None
    /\ interpolated_df = None
    /\ printed = << >>
    /\ video_frames = << >>
    /\ read_i = 0
    /\ fig = None
    /\ axes = None
    /\ writer = None
    /\ output_file = "absent"
    /\ encoded = << >>
    /\ frame_idx = 0
    /\ history_data = << >>

\* load_data
LoadData ==
    /\ pc = "start"
    /\ IF ~video.openable
       THEN /\ video_cap' = "unopened"
            /\ pc' = "failed"
            /\ error' = Raised("ValueError", "load_data")
            /\ UNCHANGED << video_fps, video_frame_count, sync_frame_count >>
       ELSE /\ video_cap' = "open"
            /\ video_fps' = video.fps
            /\ video_frame_count' = video.frame_count
            /\ IF video.fps = 0
               THEN /\ pc' = "failed"
                    /\ error' = Raised("ZeroDivisionError", "load_data")
                    /\ UNCHANGED sync_frame_count
               ELSE LET csv_times == df.values["elapsed_time"]
                        csv_duration == csv_times[Len(csv_times)]
                    IN  /\ sync_frame_count' =
                              Min(IntTrunc(csv_duration * video.fps, TicksPerSecond),
                                  video.frame_count)
                        /\ pc' = "loaded"
                        /\ UNCHANGED error
    /\ UNCHANGED << df, video, interpolated_df, printed, video_frames, read_i, fig,
                    axes, writer, output_file, encoded, frame_idx, history_data >>

\* interpolate_csv_to_video_fps, called from generate_video
Interpolate ==
    /\ pc = "loaded"
    /\ LET r == interpolate_csv_to_video_fps(df, sync_frame_count, video_fps)
       IN  /\ printed' = r.printed
           /\ IF r.raised = None
              THEN /\ interpolated_df' = r.data
                   /\ pc' = "reading"
                   /\ UNCHANGED error
              ELSE /\ pc' = "failed"
                   /\ error' = Raised(r.raised, "interpolate_csv_to_video_fps")
                   /\ UNCHANGED interpolated_df
    /\ UNCHANGED << df, video, video_cap, video_fps, video_frame_count,
                    sync_frame_count, video_frames, read_i, fig, axes, writer,
                    output_file, encoded, frame_idx, history_data >>

\* One turn of the pre-read loop: video_cap.read(), append or break.
ReadVideoFrame ==
    /\ pc = "reading"
    /\ read_i < sync_frame_count
    /\ IF read_i < video.decodable
       THEN /\ video_frames' = Append(video_frames, read_i)
            /\ read_i' = read_i + 1
            /\ UNCHANGED pc
       ELSE /\ pc' = "read_break"
            /\ UNCHANGED << video_frames, read_i >>
    /\ UNCHANGED << df, video, error, video_cap, video_fps, video_frame_count,
                    sync_frame_count, interpolated_df, printed, fig, axes, writer,
                    output_file, encoded, frame_idx, history_data >>

\* After the pre-read loop: release the capture, create the figure, make
\* the output directory, and enter writer.saving (the encoder is started
\* on the output file).
OpenWriter ==
    /\ \/ pc = "read_break"
       \/ pc = "reading" /\ read_i >= sync_frame_count
    /\ video_cap' = "released"
    /\ fig' = "open"
    /\ axes' = create_figure
    /\ writer' = "saving"
    /\ output_file' = "created"
    /\ frame_idx' = 0
    /\ pc' = "render"
    /\ UNCHANGED << df, video, error, video_fps, video_frame_count, sync_frame_count,
                    interpolated_df, printed, video_frames, read_i, encoded,
                    history_data >>

\* self.animate(frame_idx, ...) in the render loop.  An exception leaves the
\* with-block: writer.saving finishes the writer, plt.close is not reached.
Animate ==
    /\ pc = "render"
    /\ frame_idx < RenderCount(interpolated_df, video_frames)
    /\ LET r == animate(frame_idx, axes, interpolated_df, video_frames)
       IN  /\ axes' = r.axes
           /\ history_data' = r.history_data
           /\ IF r.raised = None
              THEN /\ pc' = "grab"
                   /\ UNCHANGED << error, writer >>
              ELSE /\ pc' = "failed"
                   /\ error' = Raised(r.raised, "animate")
                   /\ writer' = "finished"
    /\ UNCHANGED << df, video, video_cap, video_fps, video_frame_count,
                    sync_frame_count, interpolated_df, printed, video_frames, read_i,
                    fig, output_file, encoded, frame_idx >>

\* writer.grab_frame(): the figure as it stands goes to the encoder.
GrabFrame ==
    /\ pc = "grab"
    /\ encoded' = Append(encoded,
                         [composed |-> axes["markers"].frame,
                          video |-> axes["video"]])
    /\ frame_idx' = frame_idx + 1
    /\ pc' = "render"
    /\ UNCHANGED << df, video, error, video_cap, video_fps, video_frame_count,
                    sync_frame_count, interpolated_df, printed, video_frames, read_i,
                    fig, axes, writer, output_file, history_data >>

\* writer.grab_frame() fails writing to the encoder.
GrabFrameFails ==
    /\ pc = "grab"
    /\ pc' = "failed"
    /\ error' = Raised("IOError", "grab_frame")
    /\ writer' = "finished"
    /\ UNCHANGED << df, video, video_cap, video_fps, video_frame_count,
                    sync_frame_count, interpolated_df, printed, video_frames, read_i,
                    fig, axes, output_file, encoded, frame_idx, history_data >>

\* The render loop ends: writer.saving finishes the writer, plt.close(fig).
Finish ==
    /\ pc = "render"
    /\ frame_idx >= RenderCount(interpolated_df, video_frames)
    /\ writer' = "finished"
    /\ fig' = "closed"
    /\ pc' = "done"
    /\ UNCHANGED << df, video, error, video_cap, video_fps, video_frame_count,
                    sync_frame_count, interpolated_df, printed, video_frames, read_i,
                    axes, output_file, encoded, frame_idx, history_data >>

Next ==
    \/ LoadData
    \/ Interpolate
    \/ ReadVideoFrame
    \/ OpenWriter
    \/ Animate
    \/ GrabFrame
    \/ GrabFrameFails
    \/ Finish

Spec == Init /\ [][Next]_vars

\* ---------------------------------------------------------------- claims
\* The resampled DataFrame exists: interpolate_csv_to_video_fps returned.
Resampled ==
    \/ pc \in {"reading", "read_break", "render", "grab", "done"}
    \/ pc = "failed" /\ error.in \in {"animate", "grab_frame"}

\* interpolate_csv_to_video_fps has just returned the resampled DataFrame,
\* which nothing changes afterwards.
JustResampled == pc = "reading" /\ read_i = 0

\* load_data returned.
Loaded == pc # "start" /\ ~(pc = "failed" /\ error.in = "load_data")

CsvTimes == df.values["elapsed_time"]
SourceDuration == CsvTimes[Len(CsvTimes)]

\* C1: for valid planning inputs the output frame count load_data computes
\* is min(videoFrameCount, floor(sourceDuration * outputFrameRate)), the
\* output frame rate being the rate the composite frames are encoded at.
C1_CountAtEncodedRate ==
    (/\ Loaded
     /\ SourceDuration > 0
     /\ video.fps > 0
     /\ video.frame_count > 0)
    => sync_frame_count =
          Min(video.frame_count, (SourceDuration * output_fps) \div TicksPerSecond)

\* C2: the resampled timestamp at output index i is the timestamp of the
\* last log row whose elapsed_time is <= i / rate, or of the first row when
\* i / rate precedes every row.
C2_TimestampNearestPredecessor ==
    (JustResampled /\ "timestamp" \in DOMAIN interpolated_df)
    => \A i \in 1..DfLen(interpolated_df) :
          LET t == interpolated_df["elapsed_time"][i]
              before == {j \in 1..Len(CsvTimes) : TickAtOrBefore(CsvTimes[j], t)}
              row == IF before = {} THEN 1
                     ELSE CHOOSE j \in before : \A o \in before : o <= j
          IN  interpolated_df["timestamp"][i] = df.values["timestamp"][row]

Composing == pc = "grab" \/ (pc = "failed" /\ error.in \in {"animate", "grab_frame"})

\* C4: the history window animate uses for output index i is the run of
\* row positions max(0, i - W) .. i: one row at i = 0, i + 1 rows while
\* i < W, W + 1 rows from i = W on, and its last row is row i.
C4_HistoryWindow ==
    Composing
    => LET i == frame_idx
           W == trail_length
           lo == IF i - W > 0 THEN i - W ELSE 0
       IN  /\ i \in 0..(sync_frame_count - 1)
           /\ history_data = [k \in 1..(i - lo + 1) |-> lo + k - 1]
           /\ i = 0 => Len(history_data) = 1
           /\ i < W => Len(history_data) = i + 1
           /\ i >= W => Len(history_data) = W + 1
           /\ history_data[Len(history_data)] = i

\* C4 witness: a frame at or past the trail length, composed with a full
\* window of W + 1 rows that no longer starts at row 0.
C4_Witness ==
    /\ pc = "grab"
    /\ frame_idx > trail_length
    /\ Len(history_data) = trail_length + 1
    /\ history_data[1] = frame_idx - trail_length

\* C5: once decoding ran out at index k, every frame composed at an index
\* >= k shows a placeholder video panel, never a decoded frame left from an
\* earlier animate call, and its telemetry panels are redrawn from the
\* current sample.
C5_PlaceholderAfterExhaustion ==
    (pc = "grab" /\ frame_idx >= Len(video_frames))
    => /\ axes["video"].content = "blank"
       /\ \A p \in Panels \ {"video"} :
             axes[p].content = "plot" /\ axes[p].frame = frame_idx

\* C6: without a fatal error the frames go to the encoder in the order
\* 0, 1, 2, ..., one grab_frame per index, each taken right after the
\* animate call for that index, and a finished run has submitted exactly
\* sync_frame_count frames however few frames the video decoded.
C6_OrderedSubmission ==
    /\ \A j \in 1..Len(encoded) : encoded[j].composed = j - 1
    /\ pc = "grab" =>
          /\ Len(encoded) = frame_idx
          /\ \A p \in Panels \ {"video"} : axes[p].frame = frame_idx
    /\ pc = "render" => Len(encoded) = frame_idx
    /\ pc = "done" => Len(encoded) = sync_frame_count

\* C6 witness: a finished run whose video decoded fewer frames than were
\* planned and which submitted every planned frame.
C6_Witness ==
    /\ pc = "done"
    /\ Len(video_frames) < sync_frame_count
    /\ sync_frame_count >= 2
    /\ Len(encoded) = sync_frame_count
    /\ encoded[Len(encoded)].composed = sync_frame_count - 1

\* The columns of the log, other than timestamp, that hold non-numeric text.
BadColumns == {c \in DOMAIN df.numeric : c # "timestamp" /\ ~df.numeric[c]}

\* The log with column c taken out.
DfWithout(c) ==
    [columns |-> SeqWithout(df.columns, c),
     numeric |-> [x \in (DOMAIN df.numeric) \ {c} |-> df.numeric[x]],
     values  |-> [x \in (DOMAIN df.values) \ {c} |-> df.values[x]]]

\* interpolate_csv_to_video_fps has been called and has ended.
ResampleEnded == Loaded /\ pc # "loaded"

\* C7: a column of non-numeric text, of either kind, does not abort the
\* resampling: the column is left out, one warning is printed for it, and
\* the other columns come out as they would without it.
C7_BadColumnTolerated ==
    (ResampleEnded /\ BadColumns # {})
    => /\ ~(pc = "failed" /\ error.in = "interpolate_csv_to_video_fps")
       /\ \A c \in BadColumns :
             /\ c \notin DOMAIN interpolated_df
             /\ Len(SelectSeq(printed, LAMBDA x : x = c)) = 1
             /\ pc = "reading" /\ read_i = 0 =>
                   interpolated_df =
                      interpolate_csv_to_video_fps(
                          DfWithout(c), sync_frame_count, video_fps).data

\* A panel of animate reads a column the resampled DataFrame lacks.
ChannelMissing == Resampled /\ FirstFailingPanel(interpolated_df) # 0

\* C8: when the resampled sample lacks a channel a panel needs, animate
\* still completes (that panel empty, the other panels drawn), the frame
\* is submitted, and the later frames are produced.
C8_MissingChannelTolerated ==
    ChannelMissing
    => /\ ~(pc = "failed" /\ error.in = "animate")
       /\ pc = "grab" =>
             \A k \in 1..Len(PanelOrder) :
                k # FirstFailingPanel(interpolated_df)
                => axes[PanelOrder[k]] = [content |-> "plot", frame |-> frame_idx]
       /\ pc = "done" => Len(encoded) = sync_frame_count

\* The inputs section 4.1 rejects.
InvalidInput ==
    \/ SourceDuration <= 0
    \/ video.fps <= 0
    \/ video.frame_count <= 0
    \/ ~video.openable

\* C9: with a non-positive log duration, frame rate or frame count, or a
\* video that cannot be opened, the run fails in load_data, before any
\* frame is processed, and the encoder and the output file are never opened.
C9_InvalidInputRejected ==
    InvalidInput
    => /\ pc \notin {"render", "grab", "done"}
       /\ writer = None
       /\ output_file = "absent"

\* C10: the output frame count exceeds neither the number of frames decoded
\* from the video nor the grid times inside the log's time range: every
\* rendered frame has first elapsed_time <= i / rate <= last elapsed_time.
C10_CountWithinVideoAndLog ==
    pc \in {"render", "grab", "done"}
    => /\ DfLen(interpolated_df) <= Len(video_frames)
       /\ \A i \in 1..DfLen(interpolated_df) :
             LET t == interpolated_df["elapsed_time"][i]
             IN  /\ TickAtOrBefore(CsvTimes[1], t)
                 /\ ~TickBefore(SourceDuration, t)

\* C11: when grab_frame fails at output index k, no frame after k is
\* composed or submitted, the encoder, the video capture and the figure are
\* all released, and the error leaves generate_video; the output file may
\* remain, partially written.
C11_EncoderFailureReleasesAll ==
    (pc = "failed" /\ error.in = "grab_frame")
    => /\ error.type = "IOError"
       /\ Len(encoded) = frame_idx
       /\ \A p \in Panels : axes[p].frame <= frame_idx
       /\ ~ENABLED Next
       /\ writer = "finished"
       /\ video_cap = "released"
       /\ fig = "closed"

====
